---- MODULE Spec2Model ----
(***************************************************************************)
(* Model of the Inferno Guide API (src/main.py): the static circle         *)
(* catalog, the journey builder behind POST /api/inferno/journey, the      *)
(* request validation of JourneyRequest and the /test diagnostic endpoint. *)
(*                                                                         *)
(* Strings that the code inspects character by character (mood, interest,  *)
(* exception messages) are sequences of one-character strings; strings the *)
(* code only copies or concatenates are TLA+ strings.  The emoji prefixes  *)
(* of the /test status texts are left out of the literals.                 *)
(***************************************************************************)
EXTENDS Integers, Sequences, FiniteSets, TLC

VARIABLES
    circles,    \* the module-level list CIRCLES
    request,    \* the request the server received last
    resp,       \* the response it sent for that request
    frame,      \* locals of the build_journey call that served it (<<>> if none ran)
    pc,         \* thread pool: position of each worker inside build_journey
    wreq,       \* thread pool: the validated JourneyRequest of each worker
    wloc,       \* thread pool: the locals of each worker's build_journey call
    wresp,      \* thread pool: the JourneyResponse each worker returned
    prev        \* thread pool: one earlier request with the response it was sent

vars == <<circles, request, resp, frame, pc, wreq, wloc, wresp, prev>>

seqVars == <<request, resp, frame>>
poolVars == <<pc, wreq, wloc, wresp, prev>>

-----------------------------------------------------------------------------
(* Bounds of the model.                                                    *)

\* letter positions of a vocabulary word that the inputs may put in upper case
MaxCasePos == 1
\* how far outside the accepted range 1..10 the intensity inputs reach
IntensitySlack == 2
\* length of the longest collection list the data store returns
MaxCollections == 12
\* length of the longest exception message the data store raises with
MaxMessage == 52
\* worker threads serving journey requests at the same time
NumWorkers == 2

-----------------------------------------------------------------------------
(* Helpers on sequences and sets.                                          *)

Range(s) == {s[i] : i \in 1..Len(s)}

Min2(a, b) == IF a < b THEN a ELSE b
Max2(a, b) == IF a > b THEN a ELSE b

\* s[:n] for n >= 0
Take(s, n) == SubSeq(s, 1, Min2(n, Len(s)))

SetMin(S) == CHOOSE x \in S : \A y \in S : x <= y

RECURSIVE SortedList(_)
\* sorted(list(base)): the members of a set of integers in ascending order
SortedList(S) ==
    IF S = {} THEN <<>>
    ELSE <<SetMin(S)>> \o SortedList(S \ {SetMin(S)})

-----------------------------------------------------------------------------
(* str.lower() on the characters the inputs are made of.                   *)

LOWERCASE == <<"a","b","c","d","e","f","g","h","i","j","k","l","m",
               "n","o","p","q","r","s","t","u","v","w","x","y","z">>
UPPERCASE == <<"A","B","C","D","E","F","G","H","I","J","K","L","M",
               "N","O","P","Q","R","S","T","U","V","W","X","Y","Z">>

LowerChar(c) ==
    IF \E i \in 1..Len(UPPERCASE) : UPPERCASE[i] = c
    THEN LOWERCASE[CHOOSE i \in 1..Len(UPPERCASE) : UPPERCASE[i] = c]
    ELSE c

UpperChar(c) ==
    IF \E i \in 1..Len(LOWERCASE) : LOWERCASE[i] = c
    THEN UPPERCASE[CHOOSE i \in 1..Len(LOWERCASE) : LOWERCASE[i] = c]
    ELSE c

\* a faulty variant of Lower: the string is looked up as typed
LowerIdentity(s) == s

Lower(s) == [i \in 1..Len(s) |-> LowerChar(s[i])]

-----------------------------------------------------------------------------
(* The catalog.  Of each Circle the model keeps the fields the handlers    *)
(* read: id, name, sin and motto.                                          *)

CIRCLES == <<
    [id |-> 1, name |-> "Limbo", sin |-> "The Unbaptized & Virtuous Pagans",
     motto |-> "Where hope is a horizon you can see but never reach."],
    [id |-> 2, name |-> "Lust", sin |-> "Swept by passion",
     motto |-> "To be carried by every wind is to never arrive."],
    [id |-> 3, name |-> "Gluttony", sin |-> "Excess and indulgence",
     motto |-> "What consumes you is not what you eat, but what you cannot refuse."],
    [id |-> 4, name |-> "Greed", sin |-> "Hoarders & Wasters",
     motto |-> "The weight of wanting more is heavier than gold."],
    [id |-> 5, name |-> "Wrath", sin |-> "Wrathful & Sullen",
     motto |-> "Anger burns bright; resentment smolders cold."],
    [id |-> 6, name |-> "Heresy", sin |-> "Denial of immortality",
     motto |-> "To deny forever is to be sealed within your own certainty."],
    [id |-> 7, name |-> "Violence", sin |-> "Against others, self, God & nature",
     motto |-> "Violence returns to the hand that wields it."],
    [id |-> 8, name |-> "Fraud", sin |-> "Ten Malebolge of deception",
     motto |-> "Masks grow heavy when worn forever."],
    [id |-> 9, name |-> "Treachery", sin |-> "Betrayers frozen in Cocytus",
     motto |-> "The coldest places are reserved for those who betray trust."] >>

-----------------------------------------------------------------------------
(* The vocabulary of build_journey.                                        *)

Curious     == <<"c","u","r","i","o","u","s">>
Somber      == <<"s","o","m","b","e","r">>
Reflective  == <<"r","e","f","l","e","c","t","i","v","e">>
Adventurous == <<"a","d","v","e","n","t","u","r","o","u","s">>

Literature  == <<"l","i","t","e","r","a","t","u","r","e">>
Psychology  == <<"p","s","y","c","h","o","l","o","g","y">>
Myth        == <<"m","y","t","h">>
Morality    == <<"m","o","r","a","l","i","t","y">>
Aesthetics  == <<"a","e","s","t","h","e","t","i","c","s">>

MoodKeys == {Curious, Somber, Reflective, Adventurous}
InterestKeys == {Literature, Psychology, Myth, Morality, Aesthetics}

mood_map(k) ==
    CASE k = Curious     -> <<1, 2, 3, 4>>
      [] k = Somber      -> <<6, 9>>
      [] k = Reflective  -> <<1, 5, 7>>
      [] k = Adventurous -> <<2, 7, 8>>

interest_map(k) ==
    CASE k = Literature -> <<1, 2, 5>>
      [] k = Psychology -> <<2, 3, 5, 7>>
      [] k = Myth       -> <<4, 6, 7, 8>>
      [] k = Morality   -> <<1, 4, 9>>
      [] k = Aesthetics -> <<2, 6, 9>>

MOOD_DEFAULT == <<1, 2, 3>>
INTEREST_DEFAULT == <<4, 5>>

\* mood_map.get(req.mood.lower(), [1, 2, 3])
MoodIds(mood) ==
    IF Lower(mood) \in MoodKeys THEN mood_map(Lower(mood)) ELSE MOOD_DEFAULT

\* interest_map.get(req.interest.lower(), [4, 5])
InterestIds(interest) ==
    IF Lower(interest) \in InterestKeys THEN interest_map(Lower(interest))
    ELSE INTEREST_DEFAULT

\* a faulty variant of PRIORITY: the padding ids in ascending order
PRIORITY_ASCENDING == <<1, 2, 3, 4, 5, 6, 7, 8, 9>>

\* for c in [6, 7, 8, 9, 5, 4, 3, 2, 1]
PRIORITY == <<6, 7, 8, 9, 5, 4, 3, 2, 1>>

TAKEAWAYS == <<
    "Hope without action is a gentle prison.",
    "Desire untethered becomes a storm.",
    "Comfort can drown purpose.",
    "The pursuit of more can empty the soul.",
    "Anger can power you or poison you.",
    "Certainty can calcify curiosity.",
    "Violence echoes back to the source.",
    "Deception distorts the self first.",
    "Trust is a sacred architecture." >>

JOURNEY_TITLE == "A Personal Descent"
JOURNEY_NOTE ==
    "Your path is a reflection, not a sentence. Carry the insight, not the weight."

-----------------------------------------------------------------------------
(* JourneyRequest: the validation FastAPI runs on the body before it calls *)
(* build_journey.  A body is a record that holds the fields the caller     *)
(* sent; a field the caller left out is not in its domain.                 *)

INTENSITY_DEFAULT == 5
INTENSITY_GE == 1
INTENSITY_LE == 10

\* a faulty variant of FieldErrors: an out-of-range intensity raises no error
FieldErrorsNoRange(body) ==
    {f \in {"mood", "interest"} : f \notin DOMAIN body}

\* the fields of the body that fail the declarations of JourneyRequest
FieldErrors(body) ==
    {f \in {"mood", "interest"} : f \notin DOMAIN body}
    \cup (IF "intensity" \in DOMAIN body
             /\ ~(body.intensity >= INTENSITY_GE /\ body.intensity <= INTENSITY_LE)
          THEN {"intensity"} ELSE {})

\* the JourneyRequest object built from a body without field errors
JourneyRequest(body) ==
    [mood |-> body.mood,
     interest |-> body.interest,
     intensity |-> IF "intensity" \in DOMAIN body THEN body.intensity
                   ELSE INTENSITY_DEFAULT]

\* the 422 response FastAPI sends for a body with field errors
ValidationError(errors) == [status |-> 422, detail |-> errors]

-----------------------------------------------------------------------------
(* build_journey, statement by statement.                                  *)

MIN_LENGTH == 3
MAX_LENGTH == 7

\* a faulty variant of BaseOf: the base set is a shared set that still holds the ids
\* of a response sent earlier
BaseOfShared(req) ==
    Range(MoodIds(req.mood)) \cup Range(InterestIds(req.interest))
    \cup (IF prev = <<>> THEN {}
          ELSE {prev[1].resp.path[j].circle_id : j \in 1..Len(prev[1].resp.path)})

\* base = set(mood_map.get(...)); base.update(interest_map.get(...))
BaseOf(req) == Range(MoodIds(req.mood)) \cup Range(InterestIds(req.interest))

\* a faulty variant of LengthOf: the lower clamp is missing
LengthOfNoFloor(intensity) == Min2(MAX_LENGTH, 2 + intensity \div 2)

\* length = max(3, min(7, 2 + req.intensity // 2))
LengthOf(intensity) == Max2(MIN_LENGTH, Min2(MAX_LENGTH, 2 + intensity \div 2))

\* a faulty variant of InitialOrdered: the union is not sorted before it is cut
InitialOrderedUnsorted(base, length) ==
    Take(SelectSeq(PRIORITY, LAMBDA c : c \in base), length)

\* ordered = sorted(list(base))[:length]
InitialOrdered(base, length) == Take(SortedList(base), length)

\* a faulty variant of PadStep: the membership test is missing
PadStepNoTest(ordered, c) == Append(ordered, c)

\* one pass of the padding loop body after its break test:
\* if c not in ordered: ordered.append(c)
PadStep(ordered, c) ==
    IF c \notin Range(ordered) THEN Append(ordered, c) ELSE ordered

RECURSIVE PadFrom(_, _, _)
\* the padding loop from the i-th priority id on
PadFrom(ordered, length, i) ==
    IF i > Len(PRIORITY) THEN ordered
    ELSE IF Len(ordered) >= length THEN ordered
    ELSE PadFrom(PadStep(ordered, PRIORITY[i]), length, i + 1)

\* if len(ordered) < length: for c in [6, 7, 8, 9, 5, 4, 3, 2, 1]: ...
Pad(ordered, length) ==
    IF Len(ordered) < length THEN PadFrom(ordered, length, 1) ELSE ordered

\* next((c for c in CIRCLES if c.id == cid), None), as the list of matches
FindCircle(catalog, cid) == SelectSeq(catalog, LAMBDA c : c.id = cid)

\* a faulty variant of Takeaway: the motto is used whenever the circle has one
TakeawayMotto(cid, circle) == circle.motto

\* {1: ..., 9: ...}.get(cid, circle.motto)
Takeaway(cid, circle) ==
    IF cid \in DOMAIN TAKEAWAYS THEN TAKEAWAYS[cid] ELSE circle.motto

\* one pass of the loop over ordered: skip an unresolved id, else append a stop
StopStep(catalog, stops, cid) ==
    LET found == FindCircle(catalog, cid) IN
    IF found = <<>> THEN stops
    ELSE Append(stops,
                [circle_id |-> cid,
                 title |-> found[1].name \o ": " \o found[1].sin,
                 takeaway |-> Takeaway(cid, found[1])])

RECURSIVE StopsFrom(_, _, _, _)
\* the loop over ordered from its k-th id on
StopsFrom(catalog, ordered, stops, k) ==
    IF k > Len(ordered) THEN stops
    ELSE StopsFrom(catalog, ordered, StopStep(catalog, stops, ordered[k]), k + 1)

\* JourneyResponse(title="A Personal Descent", path=stops, note=note)
JourneyResponse(stops) ==
    [status |-> 200, title |-> JOURNEY_TITLE, path |-> stops, note |-> JOURNEY_NOTE]

\* the locals of a whole call of build_journey on a validated request
JourneyFrame(catalog, req) ==
    LET base == BaseOf(req)
        length == LengthOf(req.intensity)
        ordered == Pad(InitialOrdered(base, length), length)
    IN [req |-> req, base |-> base, length |-> length, ordered |-> ordered,
        stops |-> StopsFrom(catalog, ordered, <<>>, 1)]

-----------------------------------------------------------------------------
(* test_database.  The data store met by a call is a record:               *)
(*   kind        "absent"        from database import db raises ImportError *)
(*               "import_error"  the import raises another Exception        *)
(*               "none"          db is None                                 *)
(*               "list_error"    db.list_collection_names() raises          *)
(*               "ok"            db.list_collection_names() returns         *)
(*   message     str(e) of the exception raised, if any                     *)
(*   collections the list db.list_collection_names() returns, if it does    *)
(*   named       whether db has an attribute name                           *)
(* An environment variable is <<>> when unset and <<value>> when set.       *)

COLLECTIONS_LIMIT == 10
MESSAGE_LIMIT == 50

INITIAL_STATUS ==
    [status |-> 200,
     backend |-> "Running",
     database |-> [text |-> "Not Available", detail |-> <<>>],
     database_url |-> "None",
     database_name |-> "None",
     connection_status |-> "Not Connected",
     collections |-> <<>>]

\* a faulty variant of FirstCollections: the whole list is reported
FirstCollectionsAll(collections) == collections

\* collections[:10]
FirstCollections(collections) == Take(collections, COLLECTIONS_LIMIT)

\* the branch taken when db is not None
ProbeDb(store, r) ==
    LET r1 == [r EXCEPT !.database = [text |-> "Available", detail |-> <<>>],
                        !.database_url = "Configured",
                        !.database_name = IF store.named THEN "db.name" ELSE "Connected",
                        !.connection_status = "Connected"]
    IN IF store.kind = "ok"
       THEN [r1 EXCEPT !.collections = FirstCollections(store.collections),
                       !.database = [text |-> "Connected & Working", detail |-> <<>>]]
       ELSE [r1 EXCEPT !.database = [text |-> "Connected but Error: ",
                                     detail |-> Take(store.message, MESSAGE_LIMIT)]]

\* the outer try statement with its two except clauses
Probe(store, r) ==
    CASE store.kind = "absent" ->
            [r EXCEPT !.database =
                [text |-> "Database module not found (run enable-database first)",
                 detail |-> <<>>]]
      [] store.kind = "import_error" ->
            [r EXCEPT !.database =
                [text |-> "Error: ", detail |-> Take(store.message, MESSAGE_LIMIT)]]
      [] store.kind = "none" ->
            [r EXCEPT !.database =
                [text |-> "Available but not initialized", detail |-> <<>>]]
      [] store.kind \in {"list_error", "ok"} -> ProbeDb(store, r)

\* "Set" if os.getenv(name) else "Not Set"
EnvStatus(value) == IF value # <<>> /\ value[1] # <<>> THEN "Set" ELSE "Not Set"

\* the two assignments after the try statement
EnvCheck(env, r) ==
    [r EXCEPT !.database_url = EnvStatus(env.DATABASE_URL),
              !.database_name = EnvStatus(env.DATABASE_NAME)]

test_database(store, env) == EnvCheck(env, Probe(store, INITIAL_STATUS))

-----------------------------------------------------------------------------
(* The inputs.                                                             *)

\* the word with the letters at the positions of mask in upper case
Cased(word, mask) ==
    [i \in 1..Len(word) |-> IF i \in mask THEN UpperChar(word[i]) ELSE word[i]]

CaseMasks(word) ==
    (SUBSET (1..Min2(MaxCasePos, Len(word)))) \cup {1..Len(word)}

UnknownWords ==
    {<<>>, <<"a","n","g","r","y">>, <<"s","o","m","b","e","r"," ">>,
     <<"m","y","t","h","s">>, <<"4">>}

MoodInputs ==
    UNION {{Cased(w, m) : m \in CaseMasks(w)} : w \in MoodKeys}
    \cup UnknownWords \cup InterestKeys

InterestInputs ==
    UNION {{Cased(w, m) : m \in CaseMasks(w)} : w \in InterestKeys}
    \cup UnknownWords \cup MoodKeys

IntensityInputs == (INTENSITY_GE - IntensitySlack)..(INTENSITY_LE + IntensitySlack)

\* a field of a body: <<>> when the caller leaves it out, <<v>> when it sends v
Optional(S) == {<<>>} \cup {<<v>> : v \in S}

\* the body with the fields that were sent
BodyOf(mood, interest, intensity) ==
    [f \in {g \in {"mood", "interest", "intensity"} :
               \/ g = "mood" /\ mood # <<>>
               \/ g = "interest" /\ interest # <<>>
               \/ g = "intensity" /\ intensity # <<>>} |->
        CASE f = "mood" -> mood[1]
          [] f = "interest" -> interest[1]
          [] f = "intensity" -> intensity[1]]

MessageOf(n) == [i \in 1..n |-> i]

Stores ==
    {[kind |-> k, message |-> <<>>, collections |-> <<>>, named |-> FALSE] :
        k \in {"absent", "none"}}
    \cup {[kind |-> "import_error", message |-> MessageOf(n),
           collections |-> <<>>, named |-> FALSE] : n \in 0..MaxMessage}
    \cup {[kind |-> "list_error", message |-> MessageOf(n),
           collections |-> <<>>, named |-> b] : n \in 0..MaxMessage, b \in BOOLEAN}
    \cup {[kind |-> "ok", message |-> <<>>,
           collections |-> MessageOf(n), named |-> b] :
              n \in 0..MaxCollections, b \in BOOLEAN}

EnvValues == {<<>>, << <<>> >>, << <<"u","r","l">> >>}
Envs == [DATABASE_URL : EnvValues, DATABASE_NAME : EnvValues]

\* the journey requests the worker threads are given
PoolBodies ==
    [mood : {Somber, Curious}, interest : {Aesthetics},
     intensity : {INTENSITY_GE, INTENSITY_DEFAULT}]

-----------------------------------------------------------------------------
(* The initial state: the module has been imported, no request received.   *)

Idle == [endpoint |-> "idle"]
NoResponse == [status |-> 0]
NoJourneyRequest == [mood |-> <<>>, interest |-> <<>>, intensity |-> 0]
NoLocals ==
    [base |-> {}, length |-> 0, ordered |-> <<>>, i |-> 0, stops |-> <<>>, k |-> 0]

Workers == 1..NumWorkers

Init ==
    /\ circles = CIRCLES
    /\ request = Idle
    /\ resp = NoResponse
    /\ frame = <<>>
    /\ pc = [w \in Workers |-> "idle"]
    /\ wreq = [w \in Workers |-> NoJourneyRequest]
    /\ wloc = [w \in Workers |-> NoLocals]
    /\ wresp = [w \in Workers |-> NoResponse]
    /\ prev = <<>>

-----------------------------------------------------------------------------
(* The server handling one request at a time: each action is one whole     *)
(* exchange, from the request to the response of its handler.              *)

\* GET /
read_root ==
    /\ request = Idle
    /\ request' = [endpoint |-> "/"]
    /\ resp' = [status |-> 200, message |-> "Inferno Guide API ready"]
    /\ frame' = <<>>
    /\ UNCHANGED <<circles, poolVars>>

\* GET /api/hello
hello ==
    /\ request = Idle
    /\ request' = [endpoint |-> "/api/hello"]
    /\ resp' = [status |-> 200, message |-> "Welcome to the Inferno"]
    /\ frame' = <<>>
    /\ UNCHANGED <<circles, poolVars>>

\* a faulty variant of CirclesResult: the listing is cut after a page of eight
CirclesResultPaged(catalog) == Take(catalog, 8)

\* return CIRCLES
CirclesResult(catalog) == catalog

\* GET /api/inferno/circles
get_circles ==
    /\ request = Idle
    /\ request' = [endpoint |-> "/api/inferno/circles"]
    /\ resp' = [status |-> 200, circles |-> CirclesResult(circles)]
    /\ frame' = <<>>
    /\ UNCHANGED <<circles, poolVars>>

\* POST /api/inferno/journey: validation of the body, then build_journey
build_journey ==
    /\ request = Idle
    /\ \E mood \in Optional(MoodInputs), interest \in Optional(InterestInputs),
          intensity \in Optional(IntensityInputs) :
        LET body == BodyOf(mood, interest, intensity) IN
        /\ request' = [endpoint |-> "/api/inferno/journey", body |-> body]
        /\ IF FieldErrors(body) = {}
           THEN LET req == JourneyRequest(body)
                    f == JourneyFrame(circles, req)
                IN /\ frame' = <<f>>
                   /\ resp' = JourneyResponse(f.stops)
           ELSE /\ frame' = <<>>
                /\ resp' = ValidationError(FieldErrors(body))
    /\ UNCHANGED <<circles, poolVars>>

\* GET /test
test_database_call ==
    /\ request = Idle
    /\ \E store \in Stores, env \in Envs :
        /\ request' = [endpoint |-> "/test", store |-> store, env |-> env]
        /\ resp' = test_database(store, env)
    /\ frame' = <<>>
    /\ UNCHANGED <<circles, poolVars>>

\* the response has been sent: the request-scoped data is dropped
Close ==
    /\ request # Idle
    /\ request' = Idle
    /\ resp' = NoResponse
    /\ frame' = <<>>
    /\ UNCHANGED <<circles, poolVars>>

Next ==
    \/ read_root
    \/ hello
    \/ get_circles
    \/ build_journey
    \/ test_database_call
    \/ Close

Spec == Init /\ [][Next]_vars

-----------------------------------------------------------------------------
(* The thread pool: build_journey is a plain def, so FastAPI runs each     *)
(* call on a worker thread and the calls of several workers interleave     *)
(* statement by statement.  Each worker has its own request and locals;    *)
(* the list CIRCLES is the one object all of them read.                    *)

\* worker w is handed a validated request
Receive(w) ==
    /\ pc[w] = "idle"
    /\ \E body \in PoolBodies :
        /\ FieldErrors(body) = {}
        /\ wreq' = [wreq EXCEPT ![w] = JourneyRequest(body)]
    /\ pc' = [pc EXCEPT ![w] = "base"]
    /\ UNCHANGED <<circles, seqVars, wloc, wresp, prev>>

\* base = set(...); base.update(...)
StepBase(w) ==
    /\ pc[w] = "base"
    /\ wloc' = [wloc EXCEPT ![w].base = BaseOf(wreq[w])]
    /\ pc' = [pc EXCEPT ![w] = "length"]
    /\ UNCHANGED <<circles, seqVars, wreq, wresp, prev>>

\* length = max(3, min(7, 2 + req.intensity // 2))
StepLength(w) ==
    /\ pc[w] = "length"
    /\ wloc' = [wloc EXCEPT ![w].length = LengthOf(wreq[w].intensity)]
    /\ pc' = [pc EXCEPT ![w] = "sort"]
    /\ UNCHANGED <<circles, seqVars, wreq, wresp, prev>>

\* ordered = sorted(list(base))[:length]; if len(ordered) < length: ...
StepSort(w) ==
    /\ pc[w] = "sort"
    /\ LET ordered == InitialOrdered(wloc[w].base, wloc[w].length) IN
        /\ wloc' = [wloc EXCEPT ![w].ordered = ordered, ![w].i = 1, ![w].k = 1]
        /\ pc' = [pc EXCEPT ![w] = IF Len(ordered) < wloc[w].length
                                   THEN "pad" ELSE "stops"]
    /\ UNCHANGED <<circles, seqVars, wreq, wresp, prev>>

\* one pass of the padding loop
StepPad(w) ==
    /\ pc[w] = "pad"
    /\ wloc[w].i <= Len(PRIORITY)
    /\ Len(wloc[w].ordered) < wloc[w].length
    /\ wloc' = [wloc EXCEPT ![w].ordered = PadStep(@, PRIORITY[wloc[w].i]),
                            ![w].i = @ + 1]
    /\ UNCHANGED <<circles, seqVars, pc, wreq, wresp, prev>>

\* the padding loop ends: by its break, or with the priority list used up
StepPadEnd(w) ==
    /\ pc[w] = "pad"
    /\ wloc[w].i > Len(PRIORITY) \/ Len(wloc[w].ordered) >= wloc[w].length
    /\ pc' = [pc EXCEPT ![w] = "stops"]
    /\ UNCHANGED <<circles, seqVars, wreq, wloc, wresp, prev>>

\* one pass of the loop over ordered
StepStop(w) ==
    /\ pc[w] = "stops"
    /\ wloc[w].k <= Len(wloc[w].ordered)
    /\ wloc' = [wloc EXCEPT
                  ![w].stops = StopStep(circles, @, wloc[w].ordered[wloc[w].k]),
                  ![w].k = @ + 1]
    /\ UNCHANGED <<circles, seqVars, pc, wreq, wresp, prev>>

\* return JourneyResponse(...)
StepReturn(w) ==
    /\ pc[w] = "stops"
    /\ wloc[w].k > Len(wloc[w].ordered)
    /\ wresp' = [wresp EXCEPT ![w] = JourneyResponse(wloc[w].stops)]
    /\ pc' = [pc EXCEPT ![w] = "done"]
    /\ UNCHANGED <<circles, seqVars, wreq, wloc, prev>>

\* the response of worker w is sent and the worker is free again; the
\* exchange may be the one that prev remembers from then on
Respond(w) ==
    /\ pc[w] = "done"
    /\ prev' \in {prev, <<[req |-> wreq[w], resp |-> wresp[w]]>>}
    /\ pc' = [pc EXCEPT ![w] = "idle"]
    /\ wreq' = [wreq EXCEPT ![w] = NoJourneyRequest]
    /\ wloc' = [wloc EXCEPT ![w] = NoLocals]
    /\ wresp' = [wresp EXCEPT ![w] = NoResponse]
    /\ UNCHANGED <<circles, seqVars>>

PoolNext ==
    \E w \in Workers :
        \/ Receive(w)
        \/ StepBase(w)
        \/ StepLength(w)
        \/ StepSort(w)
        \/ StepPad(w)
        \/ StepPadEnd(w)
        \/ StepStop(w)
        \/ StepReturn(w)
        \/ Respond(w)

PoolSpec == Init /\ [][PoolNext]_vars

-----------------------------------------------------------------------------
(* Properties.  The definitions below restate what is claimed without the  *)
(* operators that model build_journey: the expected length, order and      *)
(* padding are written out again from the claim.                           *)

JourneyAsked == request.endpoint = "/api/inferno/journey"
JourneyServed == JourneyAsked /\ resp.status = 200

\* the circle ids of the path of the response, in order
PathIds == [j \in 1..Len(resp.path) |-> resp.path[j].circle_id]

\* the intensity the request stands for
AskedIntensity ==
    IF "intensity" \in DOMAIN request.body THEN request.body.intensity ELSE 5

\* clamp(2 + floor(n / 2), 3, 7)
ClampedLength(n) ==
    LET t == 2 + n \div 2 IN IF t < 3 THEN 3 ELSE IF t > 7 THEN 7 ELSE t

ClaimPriority == <<6, 7, 8, 9, 5, 4, 3, 2, 1>>

\* the members of U in ascending order: the i-th has i - 1 members below it
Ascending(U) ==
    [i \in 1..Cardinality(U) |->
        CHOOSE x \in U : Cardinality({y \in U : y < x}) = i - 1]

\* the union of the mood list and the interest list of the request
AskedUnion ==
    Range(MoodIds(request.body.mood)) \cup Range(InterestIds(request.body.interest))

\* the reference result: the first n ids of the ascending union, then the ids
\* of the priority list that are not among them, until n ids are there
Reference(U, n) ==
    LET kept == Take(Ascending(U), n)
        rest == SelectSeq(ClaimPriority, LAMBDA c : c \notin Range(kept))
    IN kept \o Take(rest, n - Len(kept))

ExampleSomberMorality == [mood |-> Somber, interest |-> Morality, intensity |-> 5]
ExampleCuriousLiterature == [mood |-> Curious, interest |-> Literature, intensity |-> 1]
ExampleSomberAesthetics == [mood |-> Somber, interest |-> Aesthetics, intensity |-> 10]

\* C1: every accepted journey request gets a path of exactly
\* clamp(2 + floor(intensity / 2), 3, 7) stops: 3 stops for intensity 1,
\* 7 stops for intensity 10, and the padding always reaches that length.
C1_PathLength ==
    JourneyServed =>
        /\ Len(resp.path) = ClampedLength(AskedIntensity)
        /\ AskedIntensity = 1 => Len(resp.path) = 3
        /\ AskedIntensity = 10 => Len(resp.path) = 7

\* an intensity 10 request whose union has 3 ids was padded to 7 stops
C1_Witness ==
    /\ JourneyServed
    /\ AskedIntensity = 10
    /\ Cardinality(AskedUnion) = 3
    /\ Len(resp.path) = 7

\* C2: every stop of a returned path has a circle id in 1..9 and no circle
\* id occurs twice in a path, with or without padding.
C2_IdsInRangeAndUnique ==
    JourneyServed =>
        /\ \A j \in 1..Len(PathIds) : PathIds[j] \in 1..9
        /\ \A j, k \in 1..Len(PathIds) : j # k => PathIds[j] # PathIds[k]

\* a path with padded ids
C2_Witness ==
    /\ JourneyServed
    /\ Len(resp.path) > Cardinality(AskedUnion)
    /\ Cardinality(Range(PathIds)) = Len(resp.path)

\* what the claim calls an invalid journey body
InvalidBody(body) ==
    \/ "mood" \notin DOMAIN body
    \/ "interest" \notin DOMAIN body
    \/ "intensity" \in DOMAIN body /\ (body.intensity < 1 \/ body.intensity > 10)

\* C3: a journey request with an intensity outside 1..10 or without mood or
\* interest gets a validation error, no build_journey call runs for it and no
\* path is produced; a request without intensity is accepted with intensity 5.
C3_Validation ==
    JourneyAsked =>
        IF InvalidBody(request.body)
        THEN /\ resp.status = 422
             /\ "path" \notin DOMAIN resp
             /\ frame = <<>>
        ELSE /\ resp.status = 200
             /\ Len(frame) = 1
             /\ "intensity" \in DOMAIN request.body
                    => frame[1].req.intensity = request.body.intensity
             /\ "intensity" \notin DOMAIN request.body
                    => frame[1].req.intensity = 5 /\ Len(resp.path) = 4

\* a request with intensity 11 and both words was rejected
C3_Witness ==
    /\ JourneyAsked
    /\ DOMAIN request.body = {"mood", "interest", "intensity"}
    /\ request.body.intensity = 11
    /\ resp.status = 422
    /\ frame = <<>>

\* C4: the circle ids of a returned path are the reference result for the
\* union of the two lists and the clamped length; somber/morality/5 gives
\* 1,4,6,9 and curious/literature/1 gives 1,2,3.
C4_MatchesReference ==
    JourneyServed =>
        /\ PathIds = Reference(AskedUnion, ClampedLength(AskedIntensity))
        /\ request.body = ExampleSomberMorality => PathIds = <<1, 4, 6, 9>>
        /\ request.body = ExampleCuriousLiterature => PathIds = <<1, 2, 3>>

\* somber/aesthetics/10: the union 2,6,9 padded with 7,8,5,4
C4_Witness ==
    /\ JourneyServed
    /\ request.body = ExampleSomberAesthetics
    /\ PathIds = <<2, 6, 9, 7, 8, 5, 4>>

\* C5: the catalog always holds the nine circles 1..9 in that order, and
\* every circle listing returns exactly them, whatever was served before.
C5_CatalogFixed ==
    /\ circles = CIRCLES
    /\ [j \in 1..Len(circles) |-> circles[j].id] = <<1, 2, 3, 4, 5, 6, 7, 8, 9>>
    /\ request.endpoint = "/api/inferno/circles" =>
          /\ resp.status = 200
          /\ [j \in 1..Len(resp.circles) |-> resp.circles[j].id]
                = <<1, 2, 3, 4, 5, 6, 7, 8, 9>>
          /\ resp.circles = circles

\* a circle listing was served
C5_Witness ==
    /\ request.endpoint = "/api/inferno/circles"
    /\ Len(resp.circles) = 9

\* the circle ids of a journey response, in order
IdsOf(response) == [j \in 1..Len(response.path) |-> response.path[j].circle_id]

\* C6: journey requests with the same mood, interest and intensity get the
\* same response, whether they are served by two workers at the same time or
\* one after the other, and the response is the one the request alone
\* determines, however the workers' steps interleave.
C6_SameRequestSameResponse ==
    /\ \A v, w \in Workers :
          pc[v] = "done" /\ pc[w] = "done" /\ wreq[v] = wreq[w]
              => wresp[v] = wresp[w]
    /\ \A w \in Workers :
          pc[w] = "done" /\ prev # <<>> /\ prev[1].req = wreq[w]
              => wresp[w] = prev[1].resp
    /\ \A w \in Workers :
          pc[w] = "done" =>
              /\ wresp[w].title = "A Personal Descent"
              /\ IdsOf(wresp[w])
                    = Reference(Range(MoodIds(wreq[w].mood))
                                   \cup Range(InterestIds(wreq[w].interest)),
                                ClampedLength(wreq[w].intensity))

\* two workers have finished the same padded request, which was also served
\* earlier
C6_Witness ==
    /\ \A w \in Workers : pc[w] = "done"
    /\ \A w \in Workers :
          wreq[w] = [mood |-> Somber, interest |-> Aesthetics, intensity |-> 5]
    /\ \A w \in Workers : IdsOf(wresp[w]) = <<2, 6, 9, 7>>
    /\ prev # <<>>
    /\ prev[1].req = [mood |-> Somber, interest |-> Aesthetics, intensity |-> 5]

\* s and t differ at most in the case of their letters
SameUpToCase(s, t) ==
    /\ Len(s) = Len(t)
    /\ \A i \in 1..Len(s) :
          \/ s[i] = t[i]
          \/ \E n \in 1..26 : {s[i], t[i]} = {LOWERCASE[n], UPPERCASE[n]}

\* s with every letter in the other case
SwapCase(s) ==
    [i \in 1..Len(s) |-> IF UpperChar(s[i]) # s[i] THEN UpperChar(s[i])
                         ELSE LowerChar(s[i])]

\* s with every letter in upper case
UpperAll(s) == [i \in 1..Len(s) |-> UpperChar(s[i])]

\* what a mood contributes when it is matched without regard to case
ClaimedMoodIds(mood) ==
    IF \E k \in MoodKeys : SameUpToCase(mood, k)
    THEN Range(mood_map(CHOOSE k \in MoodKeys : SameUpToCase(mood, k)))
    ELSE {1, 2, 3}

\* what an interest contributes when it is matched without regard to case
ClaimedInterestIds(interest) ==
    IF \E k \in InterestKeys : SameUpToCase(interest, k)
    THEN Range(interest_map(CHOOSE k \in InterestKeys : SameUpToCase(interest, k)))
    ELSE {4, 5}

\* C7: mood and interest are matched without regard to letter case, an
\* unknown mood contributes 1,2,3 and an unknown interest 4,5 (so both
\* unknown give the base set 1..5), and a request that differs from the one
\* served only in letter case gets the same path.
C7_CaseInsensitiveWithFallback ==
    JourneyServed =>
        LET mood == request.body.mood
            interest == request.body.interest
        IN /\ frame[1].base = ClaimedMoodIds(mood) \cup ClaimedInterestIds(interest)
           /\ (\A k \in MoodKeys : ~SameUpToCase(mood, k))
              /\ (\A k \in InterestKeys : ~SameUpToCase(interest, k))
                 => frame[1].base = {1, 2, 3, 4, 5}
           /\ \A m \in {UpperAll(mood), SwapCase(mood)},
                 i \in {UpperAll(interest), SwapCase(interest)} :
                 /\ SameUpToCase(m, mood) /\ SameUpToCase(i, interest)
                 /\ JourneyFrame(circles,
                        [mood |-> m, interest |-> i,
                         intensity |-> AskedIntensity]).stops = resp.path

\* SOMBER in upper case with an unknown interest: 6,9 and the fallback 4,5
C7_Witness ==
    /\ JourneyServed
    /\ request.body.mood = UpperAll(Somber)
    /\ request.body.interest = <<"a","n","g","r","y">>
    /\ frame[1].base = {4, 5, 6, 9}

\* C8: every id of the ordered list resolves to a circle of the catalog, so
\* no id is skipped and there is one stop per id; the title of a stop is
\* "<name>: <sin>" of its circle and its takeaway is the entry of the fixed
\* table, never the motto.
C8_EveryIdResolves ==
    JourneyServed =>
        /\ Len(resp.path) = Len(frame[1].ordered)
        /\ \A j \in 1..Len(resp.path) :
              LET stop == resp.path[j] IN
              /\ stop.circle_id = frame[1].ordered[j]
              /\ Cardinality({n \in 1..Len(circles) :
                                 circles[n].id = stop.circle_id}) = 1
              /\ \A n \in 1..Len(circles) :
                    circles[n].id = stop.circle_id =>
                        /\ stop.title = circles[n].name \o ": " \o circles[n].sin
                        /\ stop.takeaway # circles[n].motto
              /\ stop.takeaway = TAKEAWAYS[stop.circle_id]
              /\ stop.circle_id = 9 =>
                    /\ stop.title = "Treachery: Betrayers frozen in Cocytus"
                    /\ stop.takeaway = "Trust is a sacred architecture."

\* a path of seven stops that ends with padded ids and holds circle 9
C8_Witness ==
    /\ JourneyServed
    /\ Len(resp.path) = 7
    /\ Len(frame[1].ordered) = 7
    /\ \E j \in 1..7 : resp.path[j].title = "Treachery: Betrayers frozen in Cocytus"

\* the status text the claim expects for each state of the data store
ClaimedStatus(kind) ==
    CASE kind = "absent" -> "Database module not found (run enable-database first)"
      [] kind = "import_error" -> "Error: "
      [] kind = "none" -> "Available but not initialized"
      [] kind = "list_error" -> "Connected but Error: "
      [] kind = "ok" -> "Connected & Working"

\* C9: in every state of the data store GET /test returns its status
\* summary: backend says running, database holds the status text of the case
\* met, and collections holds at most 10 names, the first ones listed, and
\* is non-empty only when the listing succeeded.
C9_TestNeverFails ==
    request.endpoint = "/test" =>
        /\ resp.status = 200
        /\ resp.backend = "Running"
        /\ resp.database.text = ClaimedStatus(request.store.kind)
        /\ Len(resp.database.detail) <= 50
        /\ Len(resp.collections) <= 10
        /\ resp.collections # <<>> => request.store.kind = "ok"
        /\ request.store.kind = "ok" =>
              /\ Len(resp.collections) = Min2(10, Len(request.store.collections))
              /\ \A j \in 1..Len(resp.collections) :
                    resp.collections[j] = request.store.collections[j]

\* the store listed more than 10 collections and 10 were reported
C9_Witness ==
    /\ request.endpoint = "/test"
    /\ request.store.kind = "ok"
    /\ Len(request.store.collections) > 10
    /\ Len(resp.collections) = 10

\* the place of an id in the priority list
PriorityRank(c) == CHOOSE n \in 1..Len(ClaimPriority) : ClaimPriority[n] = c

\* C10: an id outside the union is in the path only when the union has
\* fewer ids than the length; then the whole union comes first in ascending
\* order and the padded ids follow in priority order.  Otherwise the path is
\* strictly ascending and holds the smallest ids of the union.
C10_PaddingOnlyWhenShort ==
    JourneyServed =>
        LET U == AskedUnion
            n == ClampedLength(AskedIntensity)
            ids == PathIds
        IN /\ (\E j \in 1..Len(ids) : ids[j] \notin U) => Cardinality(U) < n
           /\ Cardinality(U) < n =>
                 /\ U \subseteq Range(ids)
                 /\ \A j \in 1..Cardinality(U) : ids[j] \in U
                 /\ \A j, k \in 1..Cardinality(U) : j < k => ids[j] < ids[k]
                 /\ \A j \in (Cardinality(U) + 1)..Len(ids) : ids[j] \notin U
                 /\ \A j, k \in (Cardinality(U) + 1)..Len(ids) :
                       j < k => PriorityRank(ids[j]) < PriorityRank(ids[k])
           /\ Cardinality(U) >= n =>
                 /\ Len(ids) = n
                 /\ \A j, k \in 1..Len(ids) : j < k => ids[j] < ids[k]
                 /\ Range(ids) \subseteq U
                 /\ \A x \in Range(ids), y \in U \ Range(ids) : x < y

\* a path with at least two padded ids after the whole union
C10_Witness ==
    /\ JourneyServed
    /\ Cardinality(AskedUnion) + 2 <= Len(resp.path)
    /\ AskedUnion \subseteq Range(PathIds)

====
